---- MODULE Spec2Model ----
(***************************************************************************)
(* Stroke synchronisation of picto-chat (src/main.go): the host's relay    *)
(* hub (HandleConnections), the peer client (JoinWsServer,                 *)
(* SendDrawingsToWs), the render loop's input handlers (Update and the     *)
(* On... handlers) and the point codec (encoding/binary on rl.Vector2).    *)
(*                                                                         *)
(* A float32 coordinate is modelled as a fixed-point number: an integer    *)
(* count of 1/Unit pixel.  Pointer positions are whole pixels.  A lock     *)
(* protected block (Lock; body; Unlock) is one step that is enabled only   *)
(* while the lock can be taken; a block that returns without unlocking     *)
(* leaves the lock variables set.                                          *)
(***************************************************************************)
EXTENDS Integers, Sequences, FiniteSets, TLC

\* ------------------------------------------------------------------ bounds
MaxConns == 3        \* connections the host's server accepts in one run
MaxInbox == 1        \* connections with an unread message at one time
MaxJoin == 1         \* JoinWsServer goroutines started in one run
MaxServers == 1      \* StartWsServer goroutines started in one run
MaxPixels == 2       \* the user stops drawing once the buffer holds more
MaxLeak == 1         \* read locks SendDrawingsToWs may leave behind
MaxStroke == 2       \* points of a stroke sent through the codec
MaxRooms == 2        \* goroutines of each kind where Make Room is repeated
GridMax == 12        \* pointer positions of the interpolator's own check

\* ------------------------------------------------------- program constants
ElemSize == 8        \* binary.Size(rl.Vector2{}): two float32
DialAttempts == 3    \* for i := 0; i < 3; i++
DrawRadius == 10     \* a.drawRadius = 10

Unit == 2 * 2        \* fixed-point units per pixel (two fraction bits)
HostAddr == "192.168.1.113:8000"
NoConn == 0          \* a nil *websocket.Conn
NoOne == 0           \* nobody holds the lock

Conns == 1 .. MaxConns

\* ------------------------------------------------------------------- codec
RECURSIVE Log2(_)
Log2(n) == IF n <= 1 THEN 0 ELSE 1 + Log2(n \div 2)

FracBits == Log2(Unit)

\* math.Float32bits of the value v/Unit (v >= 0): sign 0, biased exponent,
\* 23 fraction bits.
Float32bits(v) ==
    IF v = 0 THEN 0
    ELSE LET e == Log2(v)
         IN  (e - FracBits + 127) * (2 ^ 23) + (v - 2 ^ e) * (2 ^ (23 - e))

\* a decoder that reads sign and exponent only
Float32frombitsNoFrac(b) ==
    IF b = 0 THEN 0 ELSE 2 ^ ((b \div (2 ^ 23)) - 127 + FracBits)

\* math.Float32frombits, back to units of 1/Unit pixel.
Float32frombits(b) ==
    IF b = 0 THEN 0
    ELSE LET e == (b \div (2 ^ 23)) - 127 + FracBits
             frac == b % (2 ^ 23)
         IN  2 ^ e + frac \div (2 ^ (23 - e))

\* binary.LittleEndian.PutUint32
PutUint32(b) ==
    << b % 256, (b \div 256) % 256, (b \div 65536) % 256, b \div 16777216 >>

\* binary.LittleEndian.Uint32 of the four bytes of B that start at index i
Uint32(B, i) ==
    B[i] + 256 * B[i + 1] + 65536 * B[i + 2] + 16777216 * B[i + 3]

\* binary.Write(buf, binary.LittleEndian, pixels): x then y of every point
RECURSIVE Encode(_)
Encode(S) ==
    IF S = << >> THEN << >>
    ELSE PutUint32(Float32bits(Head(S)[1])) \o PutUint32(Float32bits(Head(S)[2]))
         \o Encode(Tail(S))

\* binary.Read(bytes.NewReader(msg), binary.LittleEndian, vectors) into
\* count = len(msg) / elemSize vectors
Decode(B) ==
    [ i \in 1 .. (Len(B) \div ElemSize) |->
        << Float32frombits(Uint32(B, ElemSize * (i - 1) + 1)),
           Float32frombits(Uint32(B, ElemSize * (i - 1) + 5)) >> ]

\* the size check without its length test
MalformedNoLen(B) == ElemSize <= 0

\* elemSize <= 0 || len(msg)%elemSize != 0
Malformed(B) == ElemSize <= 0 \/ Len(B) % ElemSize # 0

\* ------------------------------------------------------------ environment
Px(x, y) == << x * Unit, y * Unit >>

\* what a remote peer may put on the wire: whole strokes and torn messages
StrokeA == << Px(3, 4) >>
StrokeB == << Px(6, 0), Px(12, 0) >>
Torn == << 0, 0, 64 >>
Payloads == { Encode(StrokeA), Encode(StrokeB), Torn }

\* ------------------------------------------------------------------- state
VARIABLES
    running,          \* the process has not exited
    \* fields of App
    currentAppState, mouse, lastDrawnPixel, drawnPixels, drawRadius,
    server, isServerActive, ws, isRoomHost, wsAddr,
    muWriter, muReaders,            \* a.mu: the writer, the number of readers
    \* package globals
    clients, clientsMu,
    \* the render loop (main): position in the frame and its locals
    rpc, steps, pressI, pixels,
    \* StartWsServer goroutines and the listening port
    spc, port, shut,
    \* JoinWsServer goroutines: position, i, c, msg
    jpc, ji, jc, jmsg,
    \* the client's side of the network: the connections opened, those that
    \* are up, the messages towards the client, the message written in this
    \* frame
    dialed, cup, cin, cout,
    \* HandleConnections goroutines: position, msg, the range loop
    hpc, hmsg, todo, tried,
    \* the host's side of the network: the connections that are up, the
    \* messages towards the host, the last write of the broadcast under way
    \* (to whom, what)
    alive, inbox, out

appVars == << currentAppState, mouse, lastDrawnPixel, server, isServerActive,
              ws, isRoomHost, wsAddr >>
muVars == << muWriter, muReaders >>
renderVars == << rpc, steps, pressI, pixels >>
serverVars == << spc, port, shut >>
joinVars == << jpc, ji, jc, jmsg >>
clientNet == << dialed, cup, cin, cout >>
hubVars == << clients, clientsMu, hpc, hmsg, todo, tried >>
hostNet == << alive, inbox, out >>

vars == << running, drawRadius, appVars, drawnPixels, muVars, renderVars, serverVars,
           joinVars, clientNet, hubVars, hostNet >>

\* the JoinWsServer and StartWsServer goroutines a run can start
Joiners == DOMAIN jpc
Servers == DOMAIN spc

NoMsg == << >>

\* a lock that writers take without waiting for the readers
CanLockOverReaders == muWriter = NoOne

\* a.mu.Lock() returns: no writer and no reader holds a.mu
CanLock == muWriter = NoOne /\ muReaders = 0
\* a.mu.RLock() returns: no writer holds a.mu
CanRLock == muWriter = NoOne

\* var app App; app.Init(): every field zero, the state AppStateStart
InitWith(nj, ns) ==
    /\ running = TRUE
    /\ currentAppState = "Start"
    /\ mouse = Px(0, 0)
    /\ lastDrawnPixel = Px(0, 0)
    /\ drawnPixels = << >>
    /\ drawRadius = DrawRadius
    /\ server = 0
    /\ isServerActive = FALSE
    /\ ws = NoConn
    /\ isRoomHost = FALSE
    /\ wsAddr = ""
    /\ muWriter = NoOne
    /\ muReaders = 0
    /\ clients = {}
    /\ clientsMu = NoOne
    /\ rpc = "update"
    /\ steps = 0
    /\ pressI = 0
    /\ pixels = << >>
    /\ spc = [s \in 1 .. ns |-> "idle"]
    /\ port = 0
    /\ shut = {}
    /\ jpc = [j \in 1 .. nj |-> "idle"]
    /\ ji = [j \in 1 .. nj |-> 0]
    /\ jc = [j \in 1 .. nj |-> NoConn]
    /\ jmsg = [j \in 1 .. nj |-> NoMsg]
    /\ dialed = {}
    /\ cup = {}
    /\ cin = [j \in 1 .. nj |-> << >>]
    /\ cout = NoMsg
    /\ hpc = [c \in Conns |-> "idle"]
    /\ hmsg = [c \in Conns |-> NoMsg]
    /\ todo = [c \in Conns |-> {}]
    /\ tried = [c \in Conns |-> {}]
    /\ alive = {}
    /\ inbox = [c \in Conns |-> << >>]
    /\ out = << NoConn, NoMsg >>

Init == InitWith(MaxJoin, MaxServers)

\* ------------------------------------------------------------ interpolator
\* the pointer positions the window reports (whole pixels)
MousePos == { Px(0, 0), Px(12, 0) }

\* step := a.drawRadius * 0.5; if step < 1 { step = 1 }   (in units)
Step(r) == IF r * Unit < 2 * Unit THEN Unit ELSE (r * Unit) \div 2

\* the square of rl.Vector2Length(rl.NewVector2(dx, dy))
Length2(dx, dy) == dx * dx + dy * dy

\* no interpolation: one point per frame
StepCountOne(last, cur, r) == 1

\* steps := int(dist / step); if steps < 1 { steps = 1 }
StepCount(last, cur, r) ==
    LET d2 == Length2(cur[1] - last[1], cur[2] - last[2])
        n == CHOOSE k \in 0 .. (d2 \div Unit) :
                 /\ k * k * Step(r) * Step(r) <= d2
                 /\ (k + 1) * (k + 1) * Step(r) * Step(r) > d2
    IN  IF n < 1 THEN 1 ELSE n

\* a / b rounded to the nearest unit (b > 0)
RoundDiv(a, b) == (2 * a + b) \div (2 * b)

\* the loop counted from 0: the points start at P0 and stop short of P1
InterpPointFromZero(last, cur, i, n) ==
    << last[1] + RoundDiv((cur[1] - last[1]) * (i - 1), n),
       last[2] + RoundDiv((cur[2] - last[2]) * (i - 1), n) >>

\* t := float32(i) / float32(steps); x := last.X + dx*t; y := last.Y + dy*t
InterpPoint(last, cur, i, n) ==
    << last[1] + RoundDiv((cur[1] - last[1]) * i, n),
       last[2] + RoundDiv((cur[2] - last[2]) * i, n) >>

\* -------------------------------------------------- render loop: Update
\* server.Shutdown(ctx) of a.server: its listener is closed
Shutdown ==
    /\ shut' = shut \cup {server}
    /\ port' = IF port = server THEN 0 ELSE port

\* OnMPressed in a drawing state: M with the local server active
LeavesRoom(m) == m /\ isServerActive /\ isRoomHost

\* case AppStateStart: a.OnSpacePressed(); the buffer is reset under a.mu
UpdateStart(space) ==
    /\ running
    /\ rpc = "update"
    /\ currentAppState = "Start"
    /\ CanLock
    /\ currentAppState' = IF space THEN "RoomConfig" ELSE "Start"
    /\ drawnPixels' = << >>
    /\ rpc' = "draw"
    /\ UNCHANGED << running, drawRadius, mouse, lastDrawnPixel, server, isServerActive,
                    ws, isRoomHost, wsAddr, muVars, steps, pressI, pixels,
                    serverVars, joinVars, clientNet, hubVars, hostNet >>

\* go func() { a.JoinWsServer() }()
SpawnJoin(j) ==
    /\ jpc[j] = "idle"
    /\ \A k \in Joiners : k < j => jpc[k] # "idle"
    /\ jpc' = [jpc EXCEPT ![j] = "dial"]

\* go func() { a.StartWsServer() }()
SpawnServer(s) ==
    /\ spc[s] = "idle"
    /\ \A k \in Servers : k < s => spc[k] # "idle"
    /\ spc' = [spc EXCEPT ![s] = "init"]

\* case AppStateRoomConfig: the state change once the room is up, then the
\* click on Join Room or Make Room
UpdateRoomConfig(pos, click) ==
    /\ running
    /\ rpc = "update"
    /\ currentAppState = "RoomConfig"
    /\ mouse' = pos
    /\ currentAppState' =
           IF wsAddr # "" /\ isServerActive THEN "DrawStart" ELSE "RoomConfig"
    /\ CASE click = "none" -> UNCHANGED << isRoomHost, jpc, spc >>
         [] click = "join" -> /\ isRoomHost' = FALSE
                              /\ \E j \in Joiners : SpawnJoin(j)
                              /\ UNCHANGED spc
         [] click = "make" -> /\ isRoomHost' = TRUE
                              /\ \E s \in Servers : SpawnServer(s)
                              /\ \E j \in Joiners : SpawnJoin(j)
    /\ rpc' = "draw"
    /\ UNCHANGED << running, drawRadius, lastDrawnPixel, drawnPixels, server,
                    isServerActive, ws, wsAddr, muVars, steps, pressI, pixels,
                    port, shut, ji, jc, jmsg, clientNet, hubVars, hostNet >>

\* case AppStateDrawStart: a.OnMPressed(); a.GetMousePos(); a.OnMousePress()
UpdateDrawStart(m, pos, down) ==
    /\ running
    /\ rpc = "update"
    /\ currentAppState = "DrawStart"
    /\ mouse' = pos
    /\ IF LeavesRoom(m)
       THEN /\ Shutdown
            /\ currentAppState' = "Start"
            /\ UNCHANGED lastDrawnPixel
       ELSE /\ UNCHANGED << shut, port >>
            /\ currentAppState' = IF down THEN "Drawing" ELSE "DrawStart"
            /\ lastDrawnPixel' = IF down THEN lastDrawnPixel ELSE pos
    /\ rpc' = "draw"
    /\ UNCHANGED << running, drawRadius, drawnPixels, server, isServerActive, ws,
                    isRoomHost, wsAddr, muVars, steps, pressI, pixels, spc,
                    joinVars, clientNet, hubVars, hostNet >>

\* case AppStateDrawing, up to the interpolation loop: a.OnSpacePressed()
\* (the clear under a.mu), a.OnMPressed(), a.GetMousePos() and the head of
\* a.OnMousePress()
UpdateDrawing(space, m, pos, down) ==
    /\ running
    /\ rpc = "update"
    /\ currentAppState = "Drawing"
    /\ IF space THEN CanLock /\ drawnPixels' = << >>
                ELSE UNCHANGED drawnPixels
    /\ mouse' = pos
    /\ IF LeavesRoom(m)
       THEN /\ Shutdown
            /\ currentAppState' = "Start"
            /\ rpc' = "send"
            /\ steps' = 0
            /\ pressI' = 0
            /\ UNCHANGED lastDrawnPixel
       ELSE /\ UNCHANGED << shut, port, currentAppState >>
            /\ IF down
               THEN /\ Len(drawnPixels) < MaxPixels
                    /\ steps' = StepCount(lastDrawnPixel, pos, drawRadius)
                    /\ pressI' = 1
                    /\ rpc' = "press"
                    /\ UNCHANGED lastDrawnPixel
               ELSE /\ lastDrawnPixel' = pos
                    /\ rpc' = "send"
                    /\ steps' = 0
                    /\ pressI' = 0
    /\ UNCHANGED << running, drawRadius, server, isServerActive, ws, isRoomHost, wsAddr,
                    muVars, pixels, spc, joinVars, clientNet, hubVars,
                    hostNet >>

\* one iteration of the loop of OnMousePress: a.mu.Lock(); append; Unlock();
\* after the last one a.lastDrawnPixel = cur
PressAppend ==
    /\ running
    /\ rpc = "press"
    /\ CanLock
    /\ drawnPixels' =
           Append(drawnPixels, InterpPoint(lastDrawnPixel, mouse, pressI, steps))
    /\ pressI' = pressI + 1
    /\ IF pressI < steps
       THEN UNCHANGED << lastDrawnPixel, rpc >>
       ELSE /\ lastDrawnPixel' = mouse
            /\ rpc' = "send"
    /\ UNCHANGED << running, drawRadius, currentAppState, mouse, server,
                    isServerActive, ws, isRoomHost, wsAddr, muVars, steps,
                    pixels, serverVars,
                    joinVars, clientNet, hubVars, hostNet >>

\* SendDrawingsToWs up to the copy: a.mu.RLock(); with a.ws == nil it returns
\* (the read lock is not released); else the copy and a.mu.RUnlock()
SendDrawingsToWs ==
    /\ running
    /\ rpc = "send"
    /\ CanRLock
    /\ IF ws = NoConn
       THEN /\ muReaders < MaxLeak
            /\ muReaders' = muReaders + 1
            /\ rpc' = "draw"
            /\ UNCHANGED pixels
       ELSE /\ pixels' = drawnPixels
            /\ rpc' = "write"
            /\ UNCHANGED muReaders
    /\ UNCHANGED << running, drawRadius, appVars, drawnPixels, muWriter, steps, pressI,
                    serverVars, joinVars, clientNet, hubVars, hostNet >>

\* binary.Write(buf, binary.LittleEndian, pixels);
\* a.ws.WriteMessage(websocket.BinaryMessage, buf.Bytes()); an error is logged
SendWrite ==
    /\ running
    /\ rpc = "write"
    /\ cout' = IF ws \in cup THEN Encode(pixels) ELSE cout
    /\ pixels' = << >>
    /\ rpc' = "draw"
    /\ UNCHANGED << running, drawRadius, appVars, drawnPixels, muVars, steps, pressI,
                    serverVars, joinVars, dialed, cup, cin, hubVars, hostNet >>

\* Draw(): in AppStateDrawing the circles are drawn under a.mu.RLock(); the
\* frame ends, the message written in it has left
Draw ==
    /\ running
    /\ rpc = "draw"
    /\ currentAppState = "Drawing" => CanRLock
    /\ rpc' = "update"
    /\ cout' = NoMsg
    /\ UNCHANGED << running, drawRadius, appVars, drawnPixels, muVars, steps, pressI,
                    pixels, serverVars, joinVars, dialed, cup, cin, hubVars,
                    hostNet >>

\* ------------------------------------------------------------ StartWsServer
\* a.server = &http.Server{...}; a.isServerActive = true
ServerInit(s) ==
    /\ running
    /\ spc[s] = "init"
    /\ server' = s
    /\ isServerActive' = TRUE
    /\ spc' = [spc EXCEPT ![s] = "listen"]
    /\ UNCHANGED << running, drawRadius, currentAppState, mouse, lastDrawnPixel,
                    drawnPixels, ws, isRoomHost, wsAddr, muVars, renderVars,
                    port, shut, joinVars, clientNet, hubVars, hostNet >>

\* a.server.ListenAndServe() binds port 8000 and serves
ServerListen(s) ==
    /\ running
    /\ spc[s] = "listen"
    /\ s \notin shut
    /\ port = 0
    /\ port' = s
    /\ spc' = [spc EXCEPT ![s] = "serving"]
    /\ UNCHANGED << running, drawRadius, appVars, drawnPixels, muVars, renderVars, shut,
                    joinVars, clientNet, hubVars, hostNet >>

\* a.server.ListenAndServe() returns an error (the port is taken, or
\* Shutdown was called): a.isServerActive = false
ServerReturn(s) ==
    /\ running
    /\ \/ spc[s] = "listen"
       \/ spc[s] = "serving" /\ s \in shut
    /\ isServerActive' = FALSE
    /\ spc' = [spc EXCEPT ![s] = "done"]
    /\ UNCHANGED << running, drawRadius, currentAppState, mouse, lastDrawnPixel,
                    drawnPixels, server, ws, isRoomHost, wsAddr, muVars,
                    renderVars, port, shut, joinVars, clientNet, hubVars,
                    hostNet >>

\* ------------------------------------------------------------- JoinWsServer
\* the connection attempt i of goroutine j opens
ConnId(j, i) == (j - 1) * DialAttempts + i + 1

\* the loop ends after the attempt numbered DialAttempts - 1
AfterDial(i) == IF i + 1 < DialAttempts THEN "dial" ELSE "store"

\* c, _, err = websocket.DefaultDialer.Dial(...) succeeds; time.Sleep; i++
DialOK(j) ==
    /\ running
    /\ jpc[j] = "dial"
    /\ jc' = [jc EXCEPT ![j] = ConnId(j, ji[j])]
    /\ dialed' = dialed \cup {ConnId(j, ji[j])}
    /\ cup' = cup \cup {ConnId(j, ji[j])}
    /\ ji' = [ji EXCEPT ![j] = @ + 1]
    /\ jpc' = [jpc EXCEPT ![j] = AfterDial(ji[j])]
    /\ UNCHANGED << running, drawRadius, appVars, drawnPixels, muVars, renderVars,
                    serverVars, jmsg, cin, cout, hubVars, hostNet >>

\* the Dial fails: c is nil, the error is logged; time.Sleep; i++
DialFail(j) ==
    /\ running
    /\ jpc[j] = "dial"
    /\ jc' = [jc EXCEPT ![j] = NoConn]
    /\ ji' = [ji EXCEPT ![j] = @ + 1]
    /\ jpc' = [jpc EXCEPT ![j] = AfterDial(ji[j])]
    /\ UNCHANGED << running, drawRadius, appVars, drawnPixels, muVars, renderVars,
                    serverVars, jmsg, clientNet, hubVars, hostNet >>

\* a.mu.Lock(); if c != nil { a.ws = c; a.wsAddr = ... } else { return };
\* a.mu.Unlock()
JoinStore(j) ==
    /\ running
    /\ jpc[j] = "store"
    /\ CanLock
    /\ IF jc[j] # NoConn
       THEN /\ ws' = jc[j]
            /\ wsAddr' = HostAddr
            /\ jpc' = [jpc EXCEPT ![j] = "recv"]
            /\ UNCHANGED muWriter
       ELSE /\ muWriter' = j
            /\ jpc' = [jpc EXCEPT ![j] = "done"]
            /\ UNCHANGED << ws, wsAddr >>
    /\ UNCHANGED << running, drawRadius, currentAppState, mouse, lastDrawnPixel,
                    drawnPixels, server, isServerActive, isRoomHost,
                    muReaders, renderVars, serverVars, ji, jc, jmsg,
                    clientNet, hubVars, hostNet >>

\* c.ReadMessage() returns a message; the size check
JoinRead(j) ==
    /\ running
    /\ jpc[j] = "recv"
    /\ jc[j] \in cup
    /\ cin[j] # << >>
    /\ cin' = [cin EXCEPT ![j] = Tail(@)]
    /\ IF Malformed(Head(cin[j]))
       THEN UNCHANGED << jpc, jmsg >>                       \* continue
       ELSE /\ jmsg' = [jmsg EXCEPT ![j] = Head(cin[j])]
            /\ jpc' = [jpc EXCEPT ![j] = "replace"]
    /\ UNCHANGED << running, drawRadius, appVars, drawnPixels, muVars, renderVars,
                    serverVars, ji, jc, dialed, cup, cout, hubVars, hostNet >>

\* c.ReadMessage() returns an error: it is printed and the loop body goes on
\* with msg nil, whose length 0 passes the size check
JoinReadError(j) ==
    /\ running
    /\ jpc[j] = "recv"
    /\ jc[j] \notin cup
    /\ jmsg' = [jmsg EXCEPT ![j] = NoMsg]
    /\ jpc' = [jpc EXCEPT ![j] = "replace"]
    /\ UNCHANGED << running, drawRadius, appVars, drawnPixels, muVars, renderVars,
                    serverVars, ji, jc, clientNet, hubVars, hostNet >>

\* a.mu.Lock(); a.drawnPixels = vectors; a.mu.Unlock(); the next iteration
JoinReplace(j) ==
    /\ running
    /\ jpc[j] = "replace"
    /\ CanLock
    /\ drawnPixels' = Decode(jmsg[j])
    /\ jmsg' = [jmsg EXCEPT ![j] = NoMsg]
    /\ jpc' = [jpc EXCEPT ![j] = "recv"]
    /\ UNCHANGED << running, drawRadius, appVars, muVars, renderVars, serverVars, ji, jc,
                    clientNet, hubVars, hostNet >>

\* the host writes a message to the connection goroutine j reads
HostSend(j, m) ==
    /\ running
    /\ jpc[j] \in {"recv", "replace"}
    /\ jc[j] \in cup
    /\ Len(cin[j]) < MaxInbox
    /\ cin' = [cin EXCEPT ![j] = Append(@, m)]
    /\ UNCHANGED << running, drawRadius, appVars, drawnPixels, muVars, renderVars,
                    serverVars, joinVars, dialed, cup, cout, hubVars,
                    hostNet >>

\* the connection goroutine j reads drops
HostDrop(j) ==
    /\ running
    /\ jpc[j] \in {"recv", "replace"}
    /\ jc[j] \in cup
    /\ cup' = cup \ {jc[j]}
    /\ cin' = [cin EXCEPT ![j] = << >>]
    /\ UNCHANGED << running, drawRadius, appVars, drawnPixels, muVars, renderVars,
                    serverVars, joinVars, dialed, cout, hubVars, hostNet >>

\* ------------------------------------------------- host: HandleConnections
\* The connections are accepted in the order of their numbers.
NextConn(c) == hpc[c] = "idle" /\ \A d \in Conns : d < c => hpc[d] # "idle"

\* upgrader.Upgrade succeeds; defer ws.Close()
Upgrade(c) ==
    /\ running /\ port # 0
    /\ NextConn(c)
    /\ hpc' = [hpc EXCEPT ![c] = "register"]
    /\ alive' = alive \cup {c}
    /\ UNCHANGED << running, drawRadius, appVars, drawnPixels, muVars, renderVars,
                    serverVars, joinVars, clientNet, clients, clientsMu,
                    hmsg, todo, tried, inbox, out >>

\* upgrader.Upgrade fails (the request is no websocket handshake):
\* log.Fatal(err) exits the process
UpgradeFail(c) ==
    /\ running /\ port # 0
    /\ NextConn(c)
    /\ running' = FALSE
    /\ UNCHANGED << drawRadius, appVars, drawnPixels, muVars, renderVars,
                    serverVars, joinVars, clientNet, hubVars, hostNet >>

\* clientsMu.Lock(); clients[ws] = true; clientsMu.Unlock()
Register(c) ==
    /\ running
    /\ hpc[c] = "register"
    /\ clientsMu = NoOne
    /\ clients' = clients \cup {c}
    /\ hpc' = [hpc EXCEPT ![c] = "read"]
    /\ UNCHANGED << running, drawRadius, appVars, drawnPixels, muVars, renderVars,
                    serverVars, joinVars, clientNet, clientsMu, hmsg, todo,
                    tried, hostNet >>

\* ws.ReadMessage() returns a message; the size check; the decode is left to
\* the step that stores it
HostRead(c) ==
    /\ running
    /\ hpc[c] = "read"
    /\ c \in alive
    /\ inbox[c] # << >>
    /\ inbox' = [inbox EXCEPT ![c] = Tail(@)]
    /\ IF Malformed(Head(inbox[c]))
       THEN UNCHANGED << hpc, hmsg >>                       \* continue
       ELSE /\ hmsg' = [hmsg EXCEPT ![c] = Head(inbox[c])]
            /\ hpc' = [hpc EXCEPT ![c] = "replace"]
    /\ UNCHANGED << running, drawRadius, appVars, drawnPixels, muVars, renderVars,
                    serverVars, joinVars, clientNet, clients, clientsMu,
                    todo, tried, alive, out >>

\* ws.ReadMessage() returns an error
HostReadError(c) ==
    /\ running
    /\ hpc[c] = "read"
    /\ c \notin alive
    /\ hpc' = [hpc EXCEPT ![c] = "unregister"]
    /\ UNCHANGED << running, drawRadius, appVars, drawnPixels, muVars, renderVars,
                    serverVars, joinVars, clientNet, clients, clientsMu,
                    hmsg, todo, tried, hostNet >>

\* the read failure of one handler empties the registry
UnregisterAll(c) ==
    /\ running
    /\ hpc[c] = "unregister"
    /\ clientsMu = NoOne
    /\ clients' = {}
    /\ hpc' = [hpc EXCEPT ![c] = "done"]
    /\ UNCHANGED << running, drawRadius, appVars, drawnPixels, muVars,
                    renderVars, serverVars, joinVars, clientNet, clientsMu,
                    hmsg, todo, tried, hostNet >>

\* clientsMu.Lock(); delete(clients, ws); clientsMu.Unlock(); break;
\* the deferred ws.Close()
Unregister(c) ==
    /\ running
    /\ hpc[c] = "unregister"
    /\ clientsMu = NoOne
    /\ clients' = clients \ {c}
    /\ hpc' = [hpc EXCEPT ![c] = "done"]
    /\ UNCHANGED << running, drawRadius, appVars, drawnPixels, muVars, renderVars,
                    serverVars, joinVars, clientNet, clientsMu, hmsg, todo,
                    tried, hostNet >>

\* a.mu.Lock(); a.drawnPixels = vectors; a.mu.Unlock()
HostReplace(c) ==
    /\ running
    /\ hpc[c] = "replace"
    /\ CanLock
    /\ drawnPixels' = Decode(hmsg[c])
    /\ hpc' = [hpc EXCEPT ![c] = "relayLock"]
    /\ UNCHANGED << running, drawRadius, appVars, muVars, renderVars, serverVars,
                    joinVars, clientNet, clients, clientsMu, hmsg, todo,
                    tried, hostNet >>

\* clientsMu.Lock(); for client := range clients
RelayLock(c) ==
    /\ running
    /\ hpc[c] = "relayLock"
    /\ clientsMu = NoOne
    /\ clientsMu' = c
    /\ todo' = [todo EXCEPT ![c] = clients]
    /\ tried' = [tried EXCEPT ![c] = {}]
    /\ hpc' = [hpc EXCEPT ![c] = "relay"]
    /\ UNCHANGED << running, drawRadius, appVars, drawnPixels, muVars, renderVars,
                    serverVars, joinVars, clientNet, clients, hmsg, hostNet >>

\* the clients the range loop of handler c visits
RelayTargets(c) == todo[c]

\* a failed write ends the broadcast (a break after the delete)
RelayWriteBreak(c, p) ==
    /\ running
    /\ hpc[c] = "relay"
    /\ p \in RelayTargets(c)
    /\ tried' = [tried EXCEPT ![c] = @ \cup {p}]
    /\ IF p \in alive
       THEN /\ out' = << p, hmsg[c] >>
            /\ todo' = [todo EXCEPT ![c] = @ \ {p}]
            /\ UNCHANGED clients
       ELSE /\ clients' = clients \ {p}
            /\ todo' = [todo EXCEPT ![c] = {}]
            /\ UNCHANGED out
    /\ UNCHANGED << running, drawRadius, appVars, drawnPixels, muVars,
                    renderVars, serverVars, joinVars, clientNet, clientsMu,
                    hpc, hmsg, alive, inbox >>

\* one iteration: client.WriteMessage(websocket.BinaryMessage, msg); on an
\* error client.Close() and delete(clients, client)
RelayWrite(c, p) ==
    /\ running
    /\ hpc[c] = "relay"
    /\ p \in RelayTargets(c)
    /\ todo' = [todo EXCEPT ![c] = @ \ {p}]
    /\ tried' = [tried EXCEPT ![c] = @ \cup {p}]
    /\ IF p \in alive
       THEN /\ out' = << p, hmsg[c] >>
            /\ UNCHANGED clients
       ELSE /\ clients' = clients \ {p}
            /\ UNCHANGED out
    /\ UNCHANGED << running, drawRadius, appVars, drawnPixels, muVars, renderVars,
                    serverVars, joinVars, clientNet, clientsMu, hpc, hmsg,
                    alive, inbox >>

\* the range loop ends; clientsMu.Unlock(); back to ws.ReadMessage()
RelayDone(c) ==
    /\ running
    /\ hpc[c] = "relay"
    /\ todo[c] = {}
    /\ clientsMu' = NoOne
    /\ tried' = [tried EXCEPT ![c] = {}]
    /\ hmsg' = [hmsg EXCEPT ![c] = NoMsg]
    /\ hpc' = [hpc EXCEPT ![c] = "read"]
    /\ out' = << NoConn, NoMsg >>
    /\ UNCHANGED << running, drawRadius, appVars, drawnPixels, muVars,
                    renderVars, serverVars, joinVars, clientNet, clients,
                    todo, alive, inbox >>

\* a remote peer writes a message to its connection
PeerSend(c, m) ==
    /\ running
    /\ c \in alive
    /\ inbox[c] = << >>
    /\ Cardinality({d \in Conns : inbox[d] # << >>}) < MaxInbox
    /\ inbox' = [inbox EXCEPT ![c] = << m >>]
    /\ UNCHANGED << running, drawRadius, appVars, drawnPixels, muVars, renderVars,
                    serverVars, joinVars, clientNet, hubVars, alive, out >>

\* a remote peer goes away: reads and writes on the connection fail from now
PeerDrop(c) ==
    /\ running
    /\ c \in alive
    /\ alive' = alive \ {c}
    /\ inbox' = [inbox EXCEPT ![c] = << >>]
    /\ UNCHANGED << running, drawRadius, appVars, drawnPixels, muVars, renderVars,
                    serverVars, joinVars, clientNet, hubVars, out >>

\* The hub on its own: the state after Make Room, the server of
\* StartWsServer listening.
InitHost ==
    /\ running = TRUE
    /\ currentAppState = "RoomConfig"
    /\ mouse = Px(0, 0)
    /\ lastDrawnPixel = Px(0, 0)
    /\ drawnPixels = << >>
    /\ drawRadius = DrawRadius
    /\ server = 1
    /\ isServerActive = TRUE
    /\ ws = NoConn
    /\ isRoomHost = TRUE
    /\ wsAddr = ""
    /\ muWriter = NoOne
    /\ muReaders = 0
    /\ clients = {}
    /\ clientsMu = NoOne
    /\ rpc = "update"
    /\ steps = 0
    /\ pressI = 0
    /\ pixels = << >>
    /\ spc = [s \in 1 .. MaxServers |-> IF s = 1 THEN "serving" ELSE "idle"]
    /\ port = 1
    /\ shut = {}
    /\ jpc = [j \in 1 .. MaxJoin |-> IF j = 1 THEN "dial" ELSE "idle"]
    /\ ji = [j \in 1 .. MaxJoin |-> 0]
    /\ jc = [j \in 1 .. MaxJoin |-> NoConn]
    /\ jmsg = [j \in 1 .. MaxJoin |-> NoMsg]
    /\ dialed = {}
    /\ cup = {}
    /\ cin = [j \in 1 .. MaxJoin |-> << >>]
    /\ cout = NoMsg
    /\ hpc = [c \in Conns |-> "idle"]
    /\ hmsg = [c \in Conns |-> NoMsg]
    /\ todo = [c \in Conns |-> {}]
    /\ tried = [c \in Conns |-> {}]
    /\ alive = {}
    /\ inbox = [c \in Conns |-> << >>]
    /\ out = << NoConn, NoMsg >>

NextHost ==
    \/ \E c \in Conns : Upgrade(c)
    \/ \E c \in Conns : UpgradeFail(c)
    \/ \E c \in Conns : Register(c)
    \/ \E c \in Conns : HostRead(c)
    \/ \E c \in Conns : HostReadError(c)
    \/ \E c \in Conns : Unregister(c)
    \/ \E c \in Conns : HostReplace(c)
    \/ \E c \in Conns : RelayLock(c)
    \/ \E c, p \in Conns : RelayWrite(c, p)
    \/ \E c \in Conns : RelayDone(c)
    \/ \E c \in Conns, m \in Payloads : PeerSend(c, m)
    \/ \E c \in Conns : PeerDrop(c)

SpecHost == InitHost /\ [][NextHost]_vars

Clicks == {"none", "join", "make"}

NextApp ==
    \/ \E space \in BOOLEAN : UpdateStart(space)
    \/ \E pos \in MousePos, click \in Clicks : UpdateRoomConfig(pos, click)
    \/ \E m, down \in BOOLEAN, pos \in MousePos : UpdateDrawStart(m, pos, down)
    \/ \E space, m, down \in BOOLEAN, pos \in MousePos :
           UpdateDrawing(space, m, pos, down)
    \/ PressAppend
    \/ SendDrawingsToWs
    \/ SendWrite
    \/ Draw
    \/ \E s \in Servers : ServerInit(s)
    \/ \E s \in Servers : ServerListen(s)
    \/ \E s \in Servers : ServerReturn(s)
    \/ \E j \in Joiners : DialOK(j)
    \/ \E j \in Joiners : DialFail(j)
    \/ \E j \in Joiners : JoinStore(j)
    \/ \E j \in Joiners : JoinRead(j)
    \/ \E j \in Joiners : JoinReadError(j)
    \/ \E j \in Joiners : JoinReplace(j)
    \/ \E j \in Joiners, m \in Payloads : HostSend(j, m)
    \/ \E j \in Joiners : HostDrop(j)

Next == NextApp

Spec == Init /\ [][Next]_vars

\* The interpolation of OnMousePress on its own: every start point, pointer
\* position and brush radius of a small range, on an active connection.
Grid == { Px(x, y) : x \in 0 .. GridMax, y \in 0 .. 1 }
Radii == { 0, 3, 4, DrawRadius }

InitInterp ==
    /\ running = TRUE
    /\ currentAppState = "Drawing"
    /\ mouse \in Grid
    /\ lastDrawnPixel = mouse
    /\ drawnPixels = << >>
    /\ drawRadius \in Radii
    /\ server = 0
    /\ isServerActive = FALSE
    /\ ws = ConnId(1, DialAttempts - 1)
    /\ isRoomHost = FALSE
    /\ wsAddr = HostAddr
    /\ muWriter = NoOne
    /\ muReaders = 0
    /\ clients = {}
    /\ clientsMu = NoOne
    /\ rpc = "update"
    /\ steps = 0
    /\ pressI = 0
    /\ pixels = << >>
    /\ spc = [s \in 1 .. MaxServers |-> "idle"]
    /\ port = 0
    /\ shut = {}
    /\ jpc = [j \in 1 .. MaxJoin |-> IF j = 1 THEN "recv" ELSE "idle"]
    /\ ji = [j \in 1 .. MaxJoin |-> IF j = 1 THEN DialAttempts ELSE 0]
    /\ jc = [j \in 1 .. MaxJoin |-> IF j = 1 THEN ConnId(1, DialAttempts - 1)
                                         ELSE NoConn]
    /\ jmsg = [j \in 1 .. MaxJoin |-> NoMsg]
    /\ dialed = {ConnId(1, DialAttempts - 1)}
    /\ cup = {ConnId(1, DialAttempts - 1)}
    /\ cin = [j \in 1 .. MaxJoin |-> << >>]
    /\ cout = NoMsg
    /\ hpc = [c \in Conns |-> "idle"]
    /\ hmsg = [c \in Conns |-> NoMsg]
    /\ todo = [c \in Conns |-> {}]
    /\ tried = [c \in Conns |-> {}]
    /\ alive = {}
    /\ inbox = [c \in Conns |-> << >>]
    /\ out = << NoConn, NoMsg >>

\* a frame with the button held, on a cleared canvas
FrameDown(pos) == UpdateDrawing(TRUE, FALSE, pos, TRUE)
\* a frame with the button up
FrameUp(pos) == UpdateDrawing(FALSE, FALSE, pos, FALSE)

NextInterp ==
    \/ \E pos \in Grid : FrameDown(pos)
    \/ \E pos \in Grid : FrameUp(pos)
    \/ PressAppend
    \/ SendDrawingsToWs
    \/ SendWrite
    \/ Draw

SpecInterp == InitInterp /\ [][NextInterp]_vars

\* Both receive loops of the host's process: one accepted connection (the
\* earlier ones have come and gone) and the process's own JoinWsServer.
InitRecv ==
    /\ running = TRUE
    /\ currentAppState = "RoomConfig"
    /\ mouse = Px(0, 0)
    /\ lastDrawnPixel = Px(0, 0)
    /\ drawnPixels = << >>
    /\ drawRadius = DrawRadius
    /\ server = 1
    /\ isServerActive = TRUE
    /\ ws = NoConn
    /\ isRoomHost = TRUE
    /\ wsAddr = ""
    /\ muWriter = NoOne
    /\ muReaders = 0
    /\ clients = {}
    /\ clientsMu = NoOne
    /\ rpc = "update"
    /\ steps = 0
    /\ pressI = 0
    /\ pixels = << >>
    /\ spc = [s \in 1 .. MaxServers |-> IF s = 1 THEN "serving" ELSE "idle"]
    /\ port = 1
    /\ shut = {}
    /\ jpc = [j \in 1 .. MaxJoin |-> IF j = 1 THEN "dial" ELSE "idle"]
    /\ ji = [j \in 1 .. MaxJoin |-> 0]
    /\ jc = [j \in 1 .. MaxJoin |-> NoConn]
    /\ jmsg = [j \in 1 .. MaxJoin |-> NoMsg]
    /\ dialed = {}
    /\ cup = {}
    /\ cin = [j \in 1 .. MaxJoin |-> << >>]
    /\ cout = NoMsg
    /\ hpc = [c \in Conns |-> IF c < MaxConns THEN "done" ELSE "idle"]
    /\ hmsg = [c \in Conns |-> NoMsg]
    /\ todo = [c \in Conns |-> {}]
    /\ tried = [c \in Conns |-> {}]
    /\ alive = {}
    /\ inbox = [c \in Conns |-> << >>]
    /\ out = << NoConn, NoMsg >>

NextJoin ==
    \/ \E j \in Joiners : DialOK(j)
    \/ \E j \in Joiners : DialFail(j)
    \/ \E j \in Joiners : JoinStore(j)
    \/ \E j \in Joiners : JoinRead(j)
    \/ \E j \in Joiners : JoinReadError(j)
    \/ \E j \in Joiners : JoinReplace(j)
    \/ \E j \in Joiners, m \in Payloads : HostSend(j, m)
    \/ \E j \in Joiners : HostDrop(j)

NextRecv == NextHost \/ NextJoin

SpecRecv == InitRecv /\ [][NextRecv]_vars

\* The operations of the drawing state on an App whose JoinWsServer has not
\* connected (yet): the offline use of the drawing board.
InitOffline ==
    /\ running = TRUE
    /\ currentAppState = "Drawing"
    /\ mouse = Px(0, 0)
    /\ lastDrawnPixel = Px(0, 0)
    /\ drawnPixels = << >>
    /\ drawRadius = DrawRadius
    /\ server = 0
    /\ isServerActive = FALSE
    /\ ws = NoConn
    /\ isRoomHost = FALSE
    /\ wsAddr = ""
    /\ muWriter = NoOne
    /\ muReaders = 0
    /\ clients = {}
    /\ clientsMu = NoOne
    /\ rpc = "update"
    /\ steps = 0
    /\ pressI = 0
    /\ pixels = << >>
    /\ spc = [s \in 1 .. MaxServers |-> "idle"]
    /\ port = 0
    /\ shut = {}
    /\ jpc = [j \in 1 .. MaxJoin |-> IF j = 1 THEN "dial" ELSE "idle"]
    /\ ji = [j \in 1 .. MaxJoin |-> 0]
    /\ jc = [j \in 1 .. MaxJoin |-> NoConn]
    /\ jmsg = [j \in 1 .. MaxJoin |-> NoMsg]
    /\ dialed = {}
    /\ cup = {}
    /\ cin = [j \in 1 .. MaxJoin |-> << >>]
    /\ cout = NoMsg
    /\ hpc = [c \in Conns |-> "idle"]
    /\ hmsg = [c \in Conns |-> NoMsg]
    /\ todo = [c \in Conns |-> {}]
    /\ tried = [c \in Conns |-> {}]
    /\ alive = {}
    /\ inbox = [c \in Conns |-> << >>]
    /\ out = << NoConn, NoMsg >>

NextOffline ==
    \/ \E space, m, down \in BOOLEAN, pos \in MousePos :
           UpdateDrawing(space, m, pos, down)
    \/ PressAppend
    \/ SendDrawingsToWs
    \/ SendWrite
    \/ Draw
    \/ NextJoin

SpecOffline == InitOffline /\ [][NextOffline]_vars

\* ------------------------------------------------- the codec on the wire
\* The App is host and joiner at once (Make Room): what SendDrawingsToWs
\* writes on a.ws arrives at the handler of that connection, which relays it
\* to the registry, a.ws's connection included, where JoinWsServer reads it.
LoopConn == ConnId(1, DialAttempts - 1)

\* coordinates with an empty, a short and a long fraction
CodecCoords == { 0, 3, 4 * Unit + 1 }
CodecPoints == CodecCoords \X CodecCoords
Strokes == UNION { [1 .. n -> CodecPoints] : n \in 0 .. MaxStroke }

InitCodec ==
    /\ running = TRUE
    /\ currentAppState = "Drawing"
    /\ mouse = Px(0, 0)
    /\ lastDrawnPixel = Px(0, 0)
    /\ drawnPixels \in Strokes
    /\ drawRadius = DrawRadius
    /\ server = 1
    /\ isServerActive = TRUE
    /\ ws = LoopConn
    /\ isRoomHost = TRUE
    /\ wsAddr = HostAddr
    /\ muWriter = NoOne
    /\ muReaders = 0
    /\ clients = {LoopConn}
    /\ clientsMu = NoOne
    /\ rpc = "update"
    /\ steps = 0
    /\ pressI = 0
    /\ pixels = << >>
    /\ spc = [s \in 1 .. MaxServers |-> IF s = 1 THEN "serving" ELSE "idle"]
    /\ port = 1
    /\ shut = {}
    /\ jpc = [j \in 1 .. MaxJoin |-> IF j = 1 THEN "recv" ELSE "idle"]
    /\ ji = [j \in 1 .. MaxJoin |-> IF j = 1 THEN DialAttempts ELSE 0]
    /\ jc = [j \in 1 .. MaxJoin |-> IF j = 1 THEN LoopConn ELSE NoConn]
    /\ jmsg = [j \in 1 .. MaxJoin |-> NoMsg]
    /\ dialed = {LoopConn}
    /\ cup = {LoopConn}
    /\ cin = [j \in 1 .. MaxJoin |-> << >>]
    /\ cout = NoMsg
    /\ hpc = [c \in Conns |-> IF c < LoopConn THEN "done"
                              ELSE IF c = LoopConn THEN "read" ELSE "idle"]
    /\ hmsg = [c \in Conns |-> NoMsg]
    /\ todo = [c \in Conns |-> {}]
    /\ tried = [c \in Conns |-> {}]
    /\ alive = {LoopConn}
    /\ inbox = [c \in Conns |-> << >>]
    /\ out = << NoConn, NoMsg >>

\* the message written by a.ws.WriteMessage is what ws.ReadMessage returns
\* in the handler of that connection
ClientToHost ==
    /\ running
    /\ cout # NoMsg
    /\ ws \in cup /\ ws \in alive
    /\ inbox[ws] = << >>
    /\ inbox' = [inbox EXCEPT ![ws] = << cout >>]
    /\ cout' = NoMsg
    /\ UNCHANGED << running, drawRadius, appVars, drawnPixels, muVars,
                    renderVars, serverVars, joinVars, dialed, cup, cin,
                    hubVars, alive, out >>

\* the message written by client.WriteMessage is what c.ReadMessage returns
\* in the JoinWsServer that reads this connection
HostToClient(j) ==
    /\ running
    /\ out[2] # NoMsg
    /\ out[1] = jc[j] /\ jc[j] \in cup
    /\ jpc[j] \in {"recv", "replace"}
    /\ Len(cin[j]) < MaxInbox
    /\ cin' = [cin EXCEPT ![j] = Append(@, out[2])]
    /\ out' = << NoConn, NoMsg >>
    /\ UNCHANGED << running, drawRadius, appVars, drawnPixels, muVars,
                    renderVars, serverVars, joinVars, dialed, cup, cout,
                    hubVars, alive, inbox >>

NextCodec ==
    \/ \E pos \in MousePos : FrameUp(pos)
    \/ SendDrawingsToWs
    \/ SendWrite
    \/ Draw
    \/ ClientToHost
    \/ \E c \in Conns : HostRead(c)
    \/ \E c \in Conns : HostReplace(c)
    \/ \E c \in Conns : RelayLock(c)
    \/ \E c \in Conns : \E p \in Conns : RelayWrite(c, p)
    \/ \E c \in Conns : RelayDone(c)
    \/ \E j \in Joiners : HostToClient(j)
    \/ \E j \in Joiners : JoinRead(j)
    \/ \E j \in Joiners : JoinReplace(j)

SpecCodec == InitCodec /\ [][NextCodec]_vars

\* ------------------------------------ the snapshot, element by element
\* SendDrawingsToWs with its copy taken apart: a.mu.RLock(), the test of
\* a.ws and make([]rl.Vector2, len(a.drawnPixels))
SnapBegin ==
    /\ running
    /\ rpc = "send"
    /\ ws # NoConn
    /\ CanRLock
    /\ muReaders' = muReaders + 1
    /\ pixels' = << >>
    /\ rpc' = "copy"
    /\ UNCHANGED << running, drawRadius, appVars, drawnPixels, muWriter,
                    steps, pressI, serverVars, joinVars, clientNet, hubVars,
                    hostNet >>

\* copy(pixels, a.drawnPixels): the next element
SnapCopy ==
    /\ running
    /\ rpc = "copy"
    /\ Len(pixels) < Len(drawnPixels)
    /\ pixels' = Append(pixels, drawnPixels[Len(pixels) + 1])
    /\ UNCHANGED << running, drawRadius, appVars, drawnPixels, muVars, rpc,
                    steps, pressI, serverVars, joinVars, clientNet, hubVars,
                    hostNet >>

\* the copy is complete; a.mu.RUnlock()
SnapEnd ==
    /\ running
    /\ rpc = "copy"
    /\ Len(pixels) >= Len(drawnPixels)
    /\ muReaders' = muReaders - 1
    /\ rpc' = "write"
    /\ UNCHANGED << running, drawRadius, appVars, drawnPixels, muWriter,
                    pixels, steps, pressI, serverVars, joinVars, clientNet,
                    hubVars, hostNet >>

\* a session in the drawing state on an empty canvas
InitSnap == InitCodec /\ drawnPixels = << >>

NextSnap ==
    \/ \E pos \in MousePos : FrameDown(pos)
    \/ \E pos \in MousePos : FrameUp(pos)
    \/ PressAppend
    \/ SnapBegin
    \/ SnapCopy
    \/ SnapEnd
    \/ SendWrite
    \/ Draw
    \/ \E c \in Conns, m \in Payloads : PeerSend(c, m)
    \/ \E c \in Conns : HostRead(c)
    \/ \E c \in Conns : HostReplace(c)
    \/ \E c \in Conns : RelayLock(c)
    \/ \E c \in Conns : \E p \in Conns : RelayWrite(c, p)
    \/ \E c \in Conns : RelayDone(c)
    \/ \E j \in Joiners, m \in Payloads : HostSend(j, m)
    \/ \E j \in Joiners : JoinRead(j)
    \/ \E j \in Joiners : JoinReplace(j)

SpecSnap == InitSnap /\ [][NextSnap]_vars

\* ------------------------------------------------------- a pure joiner
\* The user only ever chooses Join Room: no StartWsServer runs in this
\* process.  The states after AppStateRoomConfig are left out because no
\* behaviour of this process reaches them.
JoinClicks == { "none", "join" }

\* the render loop of main: Update, then Draw
JoinerFrame ==
    \/ \E space \in BOOLEAN : UpdateStart(space)
    \/ \E pos \in MousePos, click \in JoinClicks : UpdateRoomConfig(pos, click)
    \/ Draw

\* the goroutines of JoinWsServer
JoinerRun ==
    \/ \E j \in Joiners : DialOK(j)
    \/ \E j \in Joiners : DialFail(j)
    \/ \E j \in Joiners : JoinStore(j)
    \/ \E j \in Joiners : JoinRead(j)
    \/ \E j \in Joiners : JoinReadError(j)
    \/ \E j \in Joiners : JoinReplace(j)

\* the remote host
JoinerHost ==
    \/ \E j \in Joiners, m \in Payloads : HostSend(j, m)
    \/ \E j \in Joiners : HostDrop(j)

NextJoiner == JoinerFrame \/ JoinerRun \/ JoinerHost

\* the render loop runs at 60 frames a second and the goroutines are
\* scheduled
SpecJoiner ==
    Init /\ [][NextJoiner]_vars /\ WF_vars(JoinerFrame) /\ WF_vars(JoinerRun)

\* ------------------------------------------------- Make Room, repeatedly
\* The user presses space, chooses Make Room as often as the frames allow,
\* presses M in the draw-start state, and never draws; the connections stay
\* up and carry nothing.
InitRooms == InitWith(MaxRooms, MaxRooms)

MakeClicks == { "none", "make" }

NextRooms ==
    \/ \E space \in BOOLEAN : UpdateStart(space)
    \/ \E pos \in MousePos, click \in MakeClicks : UpdateRoomConfig(pos, click)
    \/ \E m \in BOOLEAN, pos \in MousePos : UpdateDrawStart(m, pos, FALSE)
    \/ Draw
    \/ \E s \in Servers : ServerInit(s)
    \/ \E s \in Servers : ServerListen(s)
    \/ \E s \in Servers : ServerReturn(s)
    \/ \E j \in Joiners : DialOK(j)
    \/ \E j \in Joiners : DialFail(j)
    \/ \E j \in Joiners : JoinStore(j)

SpecRooms == InitRooms /\ [][NextRooms]_vars

\* ------------------------------------------------------------------ claims
\* the connections JoinWsServer goroutine j may open
ConnsOf(j) == { ConnId(j, i) : i \in 0 .. DialAttempts - 1 }

\* the square of the distance between two points (units)
Dist2(a, b) == Length2(b[1] - a[1], b[2] - a[2])

\* the point a step of the interpolation loop starts from
PrevPoint ==
    IF pressI = 1 THEN lastDrawnPixel ELSE drawnPixels[Len(drawnPixels)]

\* a step of the interpolation loop appends a point
Emits == rpc = "press" /\ Len(drawnPixels') = Len(drawnPixels) + 1

\* rounding a point to the grid of units moves it by less than one unit, so
\* a distance between two rounded points is off by less than
RoundSlack == 1 + 1

\* C1: a broadcast of the handler of connection c writes to every
\* registered peer other than c and never to c itself (SpecHost).
C1_RelayToOthersOnly ==
    \A c \in Conns :
        hpc[c] = "relay" =>
            /\ c \notin tried[c]
            /\ todo[c] = {} => (clients \ {c}) \subseteq tried[c]

\* C2: with a.ws nil SendDrawingsToWs changes nothing: it writes nothing
\* and leaves a.mu as it found it (SpecOffline).
C2_OfflineSendIsNoOp ==
    [][ (rpc = "send" /\ ws = NoConn /\ rpc' # "send")
            => UNCHANGED << muReaders, muWriter, drawnPixels, cout >> ]_vars

\* C3: a JoinWsServer whose dials all failed ends with a.ws nil and a.mu
\* free (Spec).
C3_FailedJoinLeavesLockFree ==
    \A j \in Joiners :
        (jpc[j] = "done" /\ ConnsOf(j) \cap dialed = {})
            => ws = NoConn /\ muWriter = NoOne

\* C4: JoinWsServer ends without a connection only if none of its dials
\* succeeded; once it is in the receive loop the connection it reads is
\* a.ws and a.wsAddr is its remote address (Spec).
C4_AnySuccessfulDialConnects ==
    \A j \in Joiners :
        /\ jpc[j] = "done" => ConnsOf(j) \cap dialed = {}
        /\ jpc[j] \in {"recv", "replace"} => ws = jc[j] /\ wsAddr = HostAddr

\* C5: a failed read ends the receive loop of JoinWsServer with a.ws nil
\* (Spec).
C5_ReadFailureEndsClientLoop ==
    [][ \A j \in Joiners :
            (jpc[j] = "recv" /\ jc[j] \notin cup /\ jpc'[j] # "recv")
                => jpc'[j] = "done" /\ ws' = NoConn ]_vars

\* C6: a failed read of the handler of connection c takes c, and only c,
\* out of the registry and ends only that handler; the other handlers, the
\* listener and the process are left as they are (SpecHost).
C6_ReadFailureEndsOnlyThatHandler ==
    [][ \A c \in Conns :
          /\ (hpc[c] = "read" /\ c \notin alive /\ hpc'[c] # "read")
                => /\ hpc'[c] = "unregister"
                   /\ \A d \in Conns \ {c} : hpc'[d] = hpc[d]
                   /\ UNCHANGED << clients, port, running >>
          /\ (hpc[c] = "unregister" /\ hpc'[c] # "unregister")
                => /\ hpc'[c] = "done"
                   /\ clients' = clients \ {c}
                   /\ \A d \in Conns \ {c} : hpc'[d] = hpc[d]
                   /\ UNCHANGED << port, running >> ]_vars

C6_Witness ==
    \E c, d, e \in Conns :
        /\ c # d /\ d # e /\ c # e
        /\ hpc[c] = "done" /\ c \notin clients
        /\ d \in clients /\ d \in alive /\ hpc[d] = "read"
        /\ hpc[e] = "idle" /\ port # 0 /\ running

\* C7: a message whose length is no multiple of 8 is read and dropped by
\* either receive loop with no other effect: buffer, registry, connections
\* and relay are untouched and the loop is back at its read (SpecRecv).
C7_TornMessageIsDiscarded ==
    [][ /\ \A c \in Conns :
              ( /\ hpc[c] = "read" /\ c \in alive /\ c \in alive'
                /\ inbox[c] # << >> /\ Len(Head(inbox[c])) % 8 # 0
                /\ inbox'[c] = Tail(inbox[c]) )
                  => UNCHANGED << drawnPixels, clients, alive, out, hpc,
                                  todo, tried, running >>
        /\ \A j \in Joiners :
              ( /\ jpc[j] = "recv" /\ jc[j] \in cup /\ jc[j] \in cup'
                /\ cin[j] # << >> /\ Len(Head(cin[j])) % 8 # 0
                /\ cin'[j] = Tail(cin[j]) )
                  => UNCHANGED << drawnPixels, ws, wsAddr, cup, cout, jpc,
                                  running >> ]_vars

C7_Witness ==
    /\ drawnPixels # << >>
    /\ \E c \in Conns :
          /\ hpc[c] = "read" /\ c \in clients /\ c \in alive
          /\ inbox[c] = << Torn >>
    /\ \E j \in Joiners :
          /\ jpc[j] = "recv" /\ jc[j] \in cup /\ ws = jc[j]
          /\ cin[j] = << Torn >>

\* C8: in a broadcast a peer is tried at most once and only while it is
\* registered; a failed write takes that peer, and only it, out of the
\* registry in the same step and the loop goes on with the rest, so that at
\* its end every peer still registered was tried; a peer enters the
\* registry only when its own handler registers it (SpecHost).
C8_FailedWriteRemovesPeerOnly ==
    [][ /\ \A c, p \in Conns :
              ( /\ hpc[c] = "relay" /\ hpc'[c] = "relay"
                /\ p \in tried'[c] /\ p \notin tried[c] )
                  => /\ p \in clients
                     /\ tried'[c] = tried[c] \cup {p}
                     /\ todo'[c] = todo[c] \ {p}
                     /\ IF p \in alive
                        THEN clients' = clients /\ out' = << p, hmsg[c] >>
                        ELSE clients' = clients \ {p}
        /\ \A c \in Conns :
              (hpc[c] = "relay" /\ hpc'[c] # "relay")
                  => clients \subseteq tried[c]
        /\ \A p \in Conns :
              (p \in clients' /\ p \notin clients)
                  => hpc[p] = "register" /\ hpc'[p] = "read"
        /\ \A p \in Conns :
              hpc'[p] = "register" => hpc[p] \in {"idle", "register"}
        /\ \A p \in Conns : hpc'[p] = "idle" => hpc[p] = "idle"
      ]_vars

C8_Witness ==
    \E c, p, q \in Conns :
        /\ c # p /\ p # q /\ c # q
        /\ hpc[c] = "relay" /\ todo[c] = {}
        /\ p \in tried[c] /\ p \notin clients
        /\ q \in tried[c] /\ q \in clients
        /\ out = << q, hmsg[c] >>

\* C9: no failure of a network operation ends the process (SpecHost).
C9_ProcessKeepsRunning == running

\* C10 as claimed: each emitted point is at most step = max(1, R*0.5) away
\* from the point before it (from P0 for the first one); the rounding of the
\* coordinates is allowed for (SpecInterp).
C10_SpacingAtMostStep ==
    [][ Emits =>
          LET q == drawnPixels'[Len(drawnPixels')]
              lim == Step(drawRadius) + RoundSlack
          IN  Dist2(PrevPoint, q) <= lim * lim ]_vars

\* C10 as amended: stepCount is max(1, floor(distance / step)) and each
\* emitted point is less than 2 * step away from the point before it
\* (SpecInterp).
C10_SpacingBelowTwoSteps ==
    [][ Emits =>
          LET q == drawnPixels'[Len(drawnPixels')]
              d2 == Dist2(lastDrawnPixel, mouse)
              st == Step(drawRadius)
          IN  /\ Dist2(PrevPoint, q) < 4 * st * st
              /\ steps >= 1
              /\ steps > 1 => steps * steps * st * st <= d2
              /\ (steps + 1) * (steps + 1) * st * st > d2 ]_vars

C10_Witness ==
    /\ rpc = "send" /\ steps = 2 /\ Len(drawnPixels) = 2
    /\ drawRadius = DrawRadius
    /\ Dist2(drawnPixels[1], drawnPixels[2])
           > (Step(drawRadius) + RoundSlack) * (Step(drawRadius) + RoundSlack)

\* C11: a frame in the drawing state with the button held appends at least
\* one point (exactly one when P0 = P1), the last point it appends is P1 and
\* P1 becomes the new P0; with the button up nothing is appended and P0
\* becomes the pointer position (SpecInterp).
C11_FrameAppendsUpToP1 ==
    [][ /\ (rpc = "update" /\ rpc' = "press")
              => /\ steps' >= 1 /\ pressI' = 1
                 /\ lastDrawnPixel = mouse' => steps' = 1
                 /\ lastDrawnPixel' = lastDrawnPixel
        /\ rpc = "press"
              => /\ pressI >= 1 /\ pressI <= steps
                 /\ Len(drawnPixels') = Len(drawnPixels) + 1
                 /\ SubSeq(drawnPixels', 1, Len(drawnPixels)) = drawnPixels
                 /\ IF pressI = steps
                    THEN /\ drawnPixels'[Len(drawnPixels')] = mouse
                         /\ lastDrawnPixel' = mouse
                         /\ rpc' = "send"
                    ELSE /\ rpc' = "press" /\ pressI' = pressI + 1
                         /\ UNCHANGED << lastDrawnPixel, mouse, steps >>
        /\ (rpc = "update" /\ rpc' = "send" /\ currentAppState' = "Drawing")
              => /\ drawnPixels' \in {drawnPixels, << >>}
                 /\ lastDrawnPixel' = mouse'
      ]_vars

C11_Witness ==
    /\ rpc = "send" /\ steps = 2 /\ pressI = 3
    /\ Len(drawnPixels) = 2
    /\ drawnPixels[1] # mouse
    /\ drawnPixels[2] = mouse
    /\ lastDrawnPixel = mouse

\* C12: the payload SendDrawingsToWs builds from a snapshot S, the empty one
\* included, has 8 * Len(S) bytes and decodes to S, and a buffer that goes
\* through SendDrawingsToWs, the host's receive loop, the relay and the
\* client's receive loop comes back as it was (SpecCodec).
C12_CodecRoundTrip ==
    [][ /\ (rpc = "write" /\ rpc' = "draw" /\ ws \in cup)
              => /\ Len(cout') = 8 * Len(pixels)
                 /\ ~Malformed(cout')
                 /\ Decode(cout') = pixels
        /\ drawnPixels' = drawnPixels ]_vars

C12_Witness ==
    /\ Len(drawnPixels) = MaxStroke
    /\ drawnPixels[1] # drawnPixels[2]
    /\ \E j \in Joiners :
          /\ jpc[j] = "replace"
          /\ Len(jmsg[j]) = 8 * MaxStroke
          /\ Decode(jmsg[j]) = drawnPixels

\* C13: while SendDrawingsToWs copies, what it has copied is the beginning
\* of the buffer as it is, and when it releases the read lock its snapshot
\* is the whole buffer of that instant, whatever the receive loops and the
\* render loop do in between (SpecSnap).
C13_SnapshotIsOneBufferState ==
    [][ /\ rpc' = "copy"
              => /\ muReaders' >= 1
                 /\ Len(pixels') <= Len(drawnPixels')
                 /\ pixels' = SubSeq(drawnPixels', 1, Len(pixels'))
        /\ (rpc = "copy" /\ rpc' = "write")
              => pixels' = drawnPixels /\ drawnPixels' = drawnPixels
        /\ (rpc = "write" /\ rpc' = "write") => pixels' = pixels
        /\ (rpc = "write" /\ rpc' # "write" /\ ws \in cup)
              => cout' = Encode(pixels) ]_vars

C13_Witness ==
    /\ rpc = "copy"
    /\ Len(pixels) = 1 /\ Len(drawnPixels) = 2
    /\ \E j \in Joiners :
          jpc[j] = "replace" /\ Decode(jmsg[j]) # drawnPixels
    /\ \E c \in Conns :
          hpc[c] = "replace" /\ Decode(hmsg[c]) # drawnPixels

\* C14: a goroutine that is inside a connection read, a connection write or
\* a dial holds neither clientsMu nor a.mu (SpecHost).
C14_NoLockAcrossNetworkCall ==
    /\ \A c \in Conns :
          (hpc[c] = "read" \/ (hpc[c] = "relay" /\ todo[c] # {}))
              => clientsMu # c /\ muWriter # c
    /\ \A j \in Joiners :
          jpc[j] \in {"dial", "recv"} => muWriter # j
    /\ rpc = "write" => muReaders = 0

\* C15: no replace takes effect between two points of one frame's batch:
\* while the loop of OnMousePress runs, the points it has appended so far
\* are the end of the buffer (SpecSnap).
C15_FrameBatchIsAtomic ==
    rpc = "press" =>
        /\ Len(drawnPixels) >= pressI - 1
        /\ \A i \in 1 .. pressI - 1 :
              drawnPixels[Len(drawnPixels) - (pressI - 1) + i]
                  = InterpPoint(lastDrawnPixel, mouse, i, steps)

\* C16: the host relays payloads in the order in which it applied them: when
\* one handler is relaying while another one, with a different payload, has
\* replaced the buffer but not begun its relay, and no third handler is
\* between replace and relay, the waiting handler's payload is the one
\* applied last, i.e. the buffer (SpecHost).
C16_RelayOrderIsReplaceOrder ==
    \A c, d \in Conns :
        ( /\ c # d
          /\ hpc[c] = "relayLock" /\ hpc[d] = "relay"
          /\ \A e \in Conns \ {c, d} : hpc[e] \notin {"relayLock", "relay"}
          /\ Decode(hmsg[c]) # Decode(hmsg[d]) )
            => drawnPixels = Decode(hmsg[c])

\* C17: the iteration of the client's receive loop whose read failed leaves
\* the stroke buffer as it was (SpecRecv).
C17_ReadFailureKeepsBuffer ==
    [][ \A j \in Joiners :
            ( /\ jpc[j] = "replace" /\ jpc'[j] # "replace"
              /\ jc[j] \notin cup /\ jmsg[j] = NoMsg )
                => drawnPixels' = drawnPixels ]_vars

\* C18: of the connections one run of JoinWsServer has dialed at most one is
\* open, and once the run has stored its connection that one is a.ws (Spec).
C18_OneOpenConnectionPerJoin ==
    \A j \in Joiners :
        /\ Cardinality(ConnsOf(j) \cap cup) <= 1
        /\ jpc[j] \in {"recv", "replace"} => ConnsOf(j) \cap cup \subseteq {ws}

\* C19: a joiner whose connect succeeded (Join Room, no local server, the
\* connection stored) eventually enters the draw-start state (SpecJoiner).
C19_JoinerReachesDrawStart ==
    (/\ ~isRoomHost /\ ws # NoConn /\ wsAddr # ""
     /\ currentAppState = "RoomConfig")
        ~> (currentAppState = "DrawStart")

\* C20: while a server started by StartWsServer is listening and no shutdown
\* of it has been requested, isServerActive is true and a.server is that
\* server (SpecRooms).
C20_ListeningServerIsTracked ==
    \A s \in Servers :
        (spc[s] = "serving" /\ port = s /\ s \notin shut)
            => isServerActive /\ server = s

====
